---- MODULE Spec2Model ----
(***************************************************************************)
(* The sorter of src/main.go: collectSortedHashes indexes the sorted tree   *)
(* by content digest, checkAndSortFiles walks the inbox and moves every     *)
(* eligible file either into a category folder under sorted (moveFile, via  *)
(* moveFileBasedOnExtension) or into the delete folder                      *)
(* (moveFileWithMetadata).                                                  *)
(*                                                                         *)
(* File names are kept structured: a name is its stem, cut at every '_',   *)
(* and its extension (the text after the last '.').  The string "a_c0c0c0  *)
(* .txt" is [stem |-> <<"a", "c0c0c0">>, ext |-> "txt"], so two names are   *)
(* the same string exactly when they are the same record.                   *)
(***************************************************************************)
EXTENDS Integers, Sequences, FiniteSets, TLC

VARIABLES
    fs,              \* the three trees: path -> file (os)
    dirs,            \* the directories of the inbox, as paths below inboxDir
    sortedHashes,    \* main.go:234  digest -> path
    processedHashes, \* main.go:240  digests seen in this run
    pc,              \* where checkAndSortFiles is
    todo,            \* the entries filepath.Walk has still to visit
    err,             \* what checkAndSortFiles returns
    faults,          \* number of failures of the platform injected so far
    fs0,             \* fs when the current run started
    index0,          \* the digests of the index when intake started
    visited,         \* inbox entries the walk function was called on, this run
    tested,          \* inbox files matched against excludeFiles, this run
    hashCalls,       \* inbox path -> number of fileHash calls on it, this run
    moved,           \* the moves of this run that succeeded
    failed,          \* inbox paths on which an operation failed, this run
    last,            \* the outcome of the latest call of the walk function
    order,           \* the calls of the walk function on files, in order, this run
    prev,            \* whether a run came before this one, and whether it moved files
    goos,            \* runtime.GOOS
    config,          \* the taxonomy decoded from extensions.json
    extensionMap,    \* main.go:49  extension -> category path
    resolved,        \* the latest name resolved to a category, and the category
    goroutines,      \* part_002: inbox path -> the goroutine dispatched for it
    wg,              \* part_002: the counter of the sync.WaitGroup
    now,             \* part_002: the second time.Now() was last read in
    digest           \* a value of hash.Sum64(), its digest string and the prefix taken

\* The configuration and the resolver of categories.
resolverVars == <<goos, config, extensionMap, resolved>>

\* The goroutines of the concurrent variant.
concVars == <<goroutines, wg, now>>

vars == <<fs, dirs, sortedHashes, processedHashes, pc, todo, err, faults, fs0,
          index0, visited, tested, hashCalls, moved, failed, last, order, prev,
          resolverVars, concVars, digest>>

----------------------------------------------------------------------------
(* Bounds of the model *)

MaxInbox == 3

MaxSorted == 2

MaxFail == 1

MaxTick == 1

----------------------------------------------------------------------------
(* Names and their order *)

\* Every piece of a name the model uses, in byte order, as sort.Strings of
\* readDirNames compares them.  No piece is a prefix of another one.
TokenOrder ==
    << ".g", ".h", "7e7e7e", "Documents", "Misc", "TXT", "Text", "ZZ",
       "a", "b", "c0c0c0", "delete", "ef46db", "k", "nm", "processed", "q?", "sub",
       "tmp", "txt", "x", "zz" >>

TokenRank(t) == CHOOSE i \in 1..Len(TokenOrder) : TokenOrder[i] = t

Name(stem, ext) == [stem |-> stem, ext |-> ext]

\* The name of a directory entry, a single piece without extension.
DirName(t) == Name(<<t>>, "")

\* The characters of a name, piece by piece: '.' sorts before '_', and both
\* before every piece.
RECURSIVE StemSyms(_)
StemSyms(stem) ==
    IF Len(stem) = 1 THEN <<2 + TokenRank(stem[1])>>
    ELSE <<2 + TokenRank(stem[1]), 2>> \o StemSyms(Tail(stem))

NameSyms(n) ==
    StemSyms(n.stem) \o (IF n.ext = "" THEN <<>> ELSE <<1, 2 + TokenRank(n.ext)>>)

RECURSIVE LexLess(_, _)
LexLess(s, t) ==
    IF t = <<>> THEN FALSE
    ELSE IF s = <<>> THEN TRUE
    ELSE IF s[1] # t[1] THEN s[1] < t[1]
    ELSE LexLess(Tail(s), Tail(t))

NameLess(n, m) == LexLess(NameSyms(n), NameSyms(m))

\* strings.HasPrefix(name, "."); the piece "." is the start of a name "._..."
HasDotPrefix(n) == n.stem[1] \in {".", ".g", ".h"}

\* strings.HasPrefix(baseName, "._")
HasSidecarPrefix(n) == Len(n.stem) > 1 /\ n.stem[1] = "."

\* strings.ContainsAny(name, `<>:"/\|?*`)
ContainsInvalidChar(n) == \E i \in 1..Len(n.stem) : n.stem[i] = "q?"

\* strings.ToLower and strings.ToUpper on the extensions of the model
ToLower(e) == CASE e = "TXT" -> "txt" [] e = "ZZ" -> "zz" [] OTHER -> e

ToUpper(e) ==
    CASE e = "txt" -> "TXT"
      [] e = "zz" -> "ZZ"
      [] e = "tmp" -> "TMP"
      [] e = "no_extension" -> "NO_EXTENSION"
      [] OTHER -> e

----------------------------------------------------------------------------
(* Paths and trees *)

inboxDir == "inbox"

sortedDir == "sorted"

deleteDir == "delete"

Path(root, dir, name) == [root |-> root, dir |-> dir, name |-> name]

IsPrefix(p, s) == Len(p) <= Len(s) /\ SubSeq(s, 1, Len(p)) = p

PathsUnder(tree, root) == {p \in DOMAIN tree : p.root = root}

\* An entry of a walk: a directory (dir is its own path below the root) or a
\* file (dir is the directory that holds it).
DirEntry(root, d) == [kind |-> "dir", root |-> root, dir |-> d, name |-> DirName(d[Len(d)])]

RootEntry(root) == [kind |-> "dir", root |-> root, dir |-> <<>>, name |-> DirName(root)]

FileEntry(p) == [kind |-> "file", root |-> p.root, dir |-> p.dir, name |-> p.name]

EntryPath(e) == Path(e.root, e.dir, e.name)

\* The directories right below d: those of the tree's files, and for the
\* inbox the directories it holds, empty or not.
SubDirs(tree, ds, root, d) ==
    LET all == {p.dir : p \in PathsUnder(tree, root)} \cup (IF root = inboxDir THEN ds ELSE {})
    IN  {SubSeq(x, 1, Len(d) + 1) : x \in {y \in all : IsPrefix(d, y) /\ Len(y) > Len(d)}}

\* readDirNames: the entries of directory d.
Entries(tree, ds, root, d) ==
    {DirEntry(root, x) : x \in SubDirs(tree, ds, root, d)}
    \cup {FileEntry(p) : p \in {q \in PathsUnder(tree, root) : q.dir = d}}

\* readDirNames sorts the names of a directory.
RECURSIVE SortEntries(_)
SortEntries(S) ==
    IF S = {} THEN <<>>
    ELSE LET m == CHOOSE x \in S : \A y \in S \ {x} : NameLess(x.name, y.name)
         IN  <<m>> \o SortEntries(S \ {m})

readDirNames(tree, ds, root, d) == SortEntries(Entries(tree, ds, root, d))

----------------------------------------------------------------------------
(* Files and digests *)

\* A file: id tells files of equal content apart, data is the content (0 is
\* the empty content), link says the entry is a symbolic link.
File(id, data, link) == [id |-> id, data |-> data, link |-> link]

\* A size that is never 0, as if the check for empty files were left out.
Size_NeverZero(f) == 1

\* info.Size() of the Lstat the walk hands over, as far as the engine looks
\* at it: 0 for the empty content; a symbolic link has the length of its
\* target's name, never 0.
Size(f) == IF f.link THEN 1 ELSE IF f.data = 0 THEN 0 ELSE 1

\* The digest of a content, as fileHash prints it: its first 6 characters and
\* the rest, for contents whose digest has more than 6 characters (the
\* printing itself is Sprintf_x below).  Contents 1 and 2 differ and share
\* the first 6 characters.  Different contents have different digests.
Sum64 ==
    [d \in 0..3 |-> CASE d = 0 -> <<"ef46db", 0>>
                      [] d = 1 -> <<"c0c0c0", 1>>
                      [] d = 2 -> <<"c0c0c0", 2>>
                      [] d = 3 -> <<"7e7e7e", 3>>]

\* A digest that differs from file to file of the same content.
fileHash_PerFile(f) == <<Sum64[f.data][1], 10 + f.id>>

fileHash(f) == Sum64[f.data]

\* hash[:6]
HashPrefix(hash) == hash[1]

----------------------------------------------------------------------------
(* Configuration *)

\* An ExclusionConfig: the common patterns and those of each platform.
ExclusionConfig(common, osSpecific) == [Common |-> common, OSSpecific |-> osSpecific]

\* A pattern whose syntax is wrong, such as "[".
Malformed == [kind |-> "malformed"]

\* dir_exclusions.json and file_exclusions.json as decoded: "nm" stands for
\* a literal directory pattern such as node_modules, and the file pattern is
\* "*.tmp".  Both list a malformed pattern too, and nothing for windows.
dirExclusions ==
    ExclusionConfig(<<>>,
        [g \in {"linux", "darwin"} |->
            IF g = "linux" THEN <<Malformed, [kind |-> "literal", name |-> DirName("nm")]>>
            ELSE <<[kind |-> "literal", name |-> DirName("nm")]>>])

fileExclusions ==
    ExclusionConfig(<<>>,
        [g \in {"linux", "darwin"} |->
            IF g = "linux" THEN <<Malformed, [kind |-> "anyWithExt", ext |-> "tmp"]>>
            ELSE <<[kind |-> "anyWithExt", ext |-> "tmp"], Malformed>>])

\* main.go:80, append(config.Common, config.OSSpecific[runtime.GOOS]...); a
\* platform the mapping does not have adds nothing.
loadExclusionFile(cfg) ==
    cfg.Common \o (IF goos \in DOMAIN cfg.OSSpecific THEN cfg.OSSpecific[goos] ELSE <<>>)

\* The exclusion lists that loadExclusionConfig loads.
excludeDirs == loadExclusionFile(dirExclusions)

excludeFiles == loadExclusionFile(fileExclusions)

\* filepath.Match(pattern, name)
Match(pattern, n) ==
    CASE pattern.kind = "literal" -> [matched |-> n = pattern.name, err |-> FALSE]
      [] pattern.kind = "anyWithExt" -> [matched |-> n.ext = pattern.ext, err |-> FALSE]
      [] OTHER -> [matched |-> FALSE, err |-> TRUE]

\* The loop over an exclusion list ended by a pattern error.
RECURSIVE MatchesAny_ErrorEnds(_, _)
MatchesAny_ErrorEnds(patterns, n) ==
    IF patterns = <<>> THEN FALSE
    ELSE LET r == Match(Head(patterns), n)
         IN  IF r.err THEN FALSE
             ELSE IF r.matched THEN TRUE
             ELSE MatchesAny_ErrorEnds(Tail(patterns), n)

\* The loop over an exclusion list: a pattern error is skipped, the first
\* match decides.
RECURSIVE MatchesAny(_, _)
MatchesAny(patterns, n) ==
    IF patterns = <<>> THEN FALSE
    ELSE LET r == Match(Head(patterns), n)
         IN  IF r.err THEN MatchesAny(Tail(patterns), n)
             ELSE IF r.matched THEN TRUE
             ELSE MatchesAny(Tail(patterns), n)

EmptyMap == [x \in {} |-> x]

\* m with key k set to v
Put(m, k, v) == [x \in DOMAIN m \cup {k} |-> IF x = k THEN v ELSE m[x]]

\* A CategoryGroup: its extensions and its subcategories by name.
CategoryGroup(extensions, subcategories) ==
    [Extensions |-> extensions, Subcategories |-> subcategories]

\* The subcategory directly below its parent.
subPath_Flat(currentPath, subName) == <<subName>>

\* main.go:136, filepath.Join(currentPath, subName); a path is the sequence
\* of its names.
subPath(currentPath, subName) == Append(currentPath, subName)

\* main.go:130-132, extMap[strings.ToLower(ext)] = currentPath for the
\* extensions of a group, in list order.
RECURSIVE putExtensions(_, _, _)
putExtensions(extMap, extensions, currentPath) ==
    IF extensions = <<>> THEN extMap
    ELSE putExtensions(Put(extMap, ToLower(Head(extensions)), currentPath),
                       Tail(extensions), currentPath)

\* processCategoryGroup, and the range over a map of groups.  Go ranges over
\* a map in no fixed order: keys lists the names in the order this
\* evaluation comes to them.
RECURSIVE processCategoryGroup(_, _, _, _)
RECURSIVE rangeGroups(_, _, _, _, _)
processCategoryGroup(currentPath, group, extMap, keys) ==
    rangeGroups(currentPath, group.Subcategories,
                putExtensions(extMap, group.Extensions, currentPath), keys, keys)

rangeGroups(currentPath, groups, extMap, rest, keys) ==
    IF rest = <<>> THEN extMap
    ELSE IF Head(rest) \notin DOMAIN groups
         THEN rangeGroups(currentPath, groups, extMap, Tail(rest), keys)
    ELSE rangeGroups(currentPath, groups,
                     processCategoryGroup(subPath(currentPath, Head(rest)),
                                          groups[Head(rest)], extMap, keys),
                     Tail(rest), keys)

\* main.go:115-126: every main category is processed, then the entry for
\* the attribute files is set.
buildExtensionMap(cfg, keys) ==
    Put(rangeGroups(<<>>, cfg, EmptyMap, keys, keys), "_", <<"System", "Attribute_Files">>)

----------------------------------------------------------------------------
(* The mover *)

\* A copy that leaves the source where it was.
Rename_Copy(tree, src, dst) ==
    [p \in DOMAIN tree \cup {dst} |-> IF p = dst THEN tree[src] ELSE tree[p]]

\* os.Rename: the file leaves src and is at dst, replacing what was there.
Rename(tree, src, dst) ==
    [p \in (DOMAIN tree \ {src}) \cup {dst} |-> IF p = dst THEN tree[src] ELSE tree[p]]

\* What a move reports: the tree after it, whether it succeeded, where the
\* file went, how often it hashed the source, whether it found the plain
\* name taken, and whether the injected failure hit it.
MoveResult(tree, ok, dst, hashes, collided, faulted) ==
    [fs |-> tree, ok |-> ok, dst |-> dst, hashes |-> hashes,
     collided |-> collided, faulted |-> faulted]

\* filepath.Ext and strings.TrimSuffix(filepath.Base(src), ext) are the ext
\* and the stem of the name; fmt.Sprintf("%s_%s%s", baseName, hashPrefix, ext)
CollisionName(n, hashPrefix) == Name(Append(n.stem, hashPrefix), n.ext)

\* The marker appended without the digest.
MetadataName_NoDigest(n, hashPrefix) == Name(n.stem \o <<"processed", "delete">>, n.ext)

\* fmt.Sprintf("%s_%s_processed_delete%s", baseName, hashPrefix, ext)
MetadataName(n, hashPrefix) ==
    Name(n.stem \o <<hashPrefix, "processed", "delete">>, n.ext)

\* main.go:355-388.  os.MkdirAll, then the plain name, or with a file of that
\* name in dest the name with the digest prefix, then os.Rename; each step may
\* fail and the failure is returned.
moveFile(tree, src, dest, fault) ==
    LET plain == Path(sortedDir, dest, src.name)
        taken == plain \in DOMAIN tree
        renamed == Path(sortedDir, dest, CollisionName(src.name, HashPrefix(fileHash(tree[src]))))
        destFilePath == IF taken THEN renamed ELSE plain
    IN  IF fault = "mkdir" THEN MoveResult(tree, FALSE, src, 0, FALSE, TRUE)
        ELSE IF taken /\ fault = "rehash" THEN MoveResult(tree, FALSE, src, 1, TRUE, TRUE)
        ELSE IF fault = "rename"
             THEN MoveResult(tree, FALSE, src, IF taken THEN 1 ELSE 0, taken, TRUE)
        ELSE MoveResult(Rename(tree, src, destFilePath), TRUE, destFilePath,
                        IF taken THEN 1 ELSE 0, taken, FALSE)

\* main.go:391-421.  os.MkdirAll, fileHash, os.Rename to the name with the
\* digest prefix and the marker, without a look at what dest holds.
moveFileWithMetadata(tree, src, dest, fault) ==
    LET destFilePath ==
            Path(dest, <<>>, MetadataName(src.name, HashPrefix(fileHash(tree[src]))))
    IN  IF fault = "mkdir" THEN MoveResult(tree, FALSE, src, 0, FALSE, TRUE)
        ELSE IF fault = "rehash" THEN MoveResult(tree, FALSE, src, 1, FALSE, TRUE)
        ELSE IF fault = "rename" THEN MoveResult(tree, FALSE, src, 1, FALSE, TRUE)
        ELSE MoveResult(Rename(tree, src, destFilePath), TRUE, destFilePath, 1, FALSE, FALSE)

\* The fallback without the upper-casing.
CategoryPath_LowerFallback(n) ==
    LET lower == ToLower(n.ext)
        trimmed == IF HasSidecarPrefix(n) /\ goos = "darwin" THEN "_*" ELSE lower
        ext == IF trimmed = "" THEN "no_extension" ELSE trimmed
    IN  IF ext \in DOMAIN extensionMap THEN extensionMap[ext]
        ELSE <<"Misc", ext>>

\* main.go:425-447.  The category of a file: ext is the lower-cased
\* extension, "._*" for a name that begins with "._" on darwin, then without
\* its leading '.', and "no_extension" if nothing is left; the entry of ext in
\* extensionMap, else Misc/<EXT>.
CategoryPath(n) ==
    LET lower == ToLower(n.ext)
        trimmed == IF HasSidecarPrefix(n) /\ goos = "darwin" THEN "_*" ELSE lower
        ext == IF trimmed = "" THEN "no_extension" ELSE trimmed
    IN  IF ext \in DOMAIN extensionMap THEN extensionMap[ext]
        ELSE <<"Misc", ToUpper(ext)>>

\* main.go:424-451.  The error of moveFile is dropped.
moveFileBasedOnExtension(tree, filePath, fault) ==
    moveFile(tree, filePath, CategoryPath(filePath.name), fault)

----------------------------------------------------------------------------
(* The initial trees *)

InboxFile(id, dir, stem, ext, data, link) ==
    [path |-> Path(inboxDir, dir, Name(stem, ext)), file |-> File(id, data, link)]

\* The files an inbox may hold when the program starts.
InboxCandidates ==
    { InboxFile(1, <<>>, <<"a">>, "txt", 1, FALSE),
      InboxFile(2, <<>>, <<"b">>, "zz", 1, FALSE),
      InboxFile(3, <<"k">>, <<"a">>, "txt", 1, FALSE),
      InboxFile(4, <<"k">>, <<"a">>, "txt", 2, FALSE),
      InboxFile(5, <<"k", "sub">>, <<"a">>, "txt", 1, FALSE),
      InboxFile(6, <<"nm", "sub">>, <<"a">>, "txt", 1, FALSE),
      InboxFile(7, <<".g">>, <<"a">>, "txt", 1, FALSE),
      InboxFile(8, <<>>, <<".h">>, "txt", 1, FALSE),
      InboxFile(9, <<>>, <<"x">>, "tmp", 2, FALSE),
      InboxFile(10, <<"k">>, <<"b">>, "TXT", 0, FALSE),
      InboxFile(11, <<>>, <<"q?">>, "txt", 1, FALSE),
      InboxFile(12, <<"k", "sub">>, <<"b">>, "TXT", 1, TRUE) }

SortedFile(id, stem, ext, data) ==
    [path |-> Path(sortedDir, <<"Documents", "Text">>, Name(stem, ext)),
     file |-> File(id, data, FALSE)]

\* The files the sorted tree may hold when the program starts: two of one
\* content, the second under the name a collision with the first gives, and
\* one of the content of inbox files.
SortedCandidates ==
    { SortedFile(21, <<"a">>, "txt", 2),
      SortedFile(22, <<"a", "c0c0c0">>, "txt", 2),
      SortedFile(23, <<"b">>, "txt", 1) }

\* The files the delete folder may hold when the program starts: one with
\* the plain name of an inbox file.
DeleteCandidates ==
    { [path |-> Path(deleteDir, <<>>, Name(<<"a">>, "txt")), file |-> File(31, 3, FALSE)] }

\* A set of files at different paths, as a tree.
TreeOf(S) == [p \in {x.path : x \in S} |-> (CHOOSE x \in S : x.path = p).file]

Prefixes(d) == {SubSeq(d, 1, i) : i \in 1..Len(d)}

NoPath == Path("", <<>>, Name(<<>>, ""))

NoCall == [kind |-> "none", path |-> NoPath, ok |-> TRUE]

NoRun == [ran |-> FALSE, moved |-> FALSE]

NoResolution == [name |-> Name(<<>>, ""), categoryPath |-> <<>>]

NoDigest == [sum |-> <<>>, hash |-> <<>>, hashPrefix |-> <<>>]

\* The values of runtime.GOOS the code tells apart, and another one.
GOOS == {"darwin", "windows", "linux"}

NoGroups == [x \in {} |-> x]

\* The taxonomy the runs of the engine are checked with: txt is listed by
\* Documents/Text.
MainConfig ==
    [c \in {"Documents"} |->
        CategoryGroup(<<>>, [t \in {"Text"} |-> CategoryGroup(<<"txt">>, NoGroups)])]

\* The taxonomies extensions.json may hold: the one above; an extension
\* listed in upper case; the key "_" listed by a category; an extension
\* listed by two main categories; a second main category; none at all.
Taxonomies ==
    { MainConfig,
      [c \in {"Documents"} |-> CategoryGroup(<<"TXT">>, NoGroups)],
      [c \in {"Documents", "Odd"} |->
          IF c = "Odd" THEN CategoryGroup(<<"_">>, NoGroups) ELSE MainConfig[c]],
      [c \in {"Documents", "Text"} |-> CategoryGroup(<<"txt">>, NoGroups)],
      [c \in {"Documents", "Archives"} |->
          IF c = "Archives" THEN CategoryGroup(<<"zz">>, NoGroups) ELSE MainConfig[c]],
      NoGroups }

\* The names of the groups of the taxonomies, and the orders a range over a
\* map may come to them.
GroupNames == {"Archives", "Documents", "Odd", "Text"}

Orders ==
    {o \in [1..Cardinality(GroupNames) -> GroupNames] :
        \A i, j \in DOMAIN o : o[i] = o[j] => i = j}

\* The names moveFileBasedOnExtension is given: a.txt, a.TXT, b.zz, b.ZZ, a
\* (no extension), a._ and ._a.txt.
ResolvedNames ==
    { Name(<<"a">>, "txt"), Name(<<"a">>, "TXT"), Name(<<"b">>, "zz"), Name(<<"b">>, "ZZ"),
      Name(<<"a">>, ""), Name(<<"a">>, "_"), Name(<<".", "a">>, "txt") }

\* The engine before a run: init() has loaded the configuration.
Init ==
    \E I \in SUBSET InboxCandidates, S \in SUBSET SortedCandidates,
       D \in SUBSET DeleteCandidates :
        /\ Cardinality(I) <= MaxInbox
        /\ Cardinality(S) <= MaxSorted
        /\ \A x, y \in I : x.path = y.path => x = y
        /\ fs = TreeOf(I \cup S \cup D)
        /\ dirs = UNION {Prefixes(x.path.dir) : x \in I}
        /\ sortedHashes = EmptyMap
        /\ processedHashes = {}
        /\ pc = "start"
        /\ todo = << >>
        /\ err = "none"
        /\ faults = 0
        /\ fs0 = fs
        /\ index0 = {}
        /\ visited = {}
        /\ tested = {}
        /\ hashCalls = EmptyMap
        /\ moved = {}
        /\ failed = {}
        /\ last = NoCall
        /\ order = << >>
        /\ prev = NoRun
        /\ goos = "linux"
        /\ config = MainConfig
        /\ extensionMap = buildExtensionMap(MainConfig, CHOOSE o \in Orders : TRUE)
        /\ resolved = NoResolution
        /\ goroutines = EmptyMap
        /\ wg = 0
        /\ now = 0
        /\ digest = NoDigest

\* The program before init(): any platform, any taxonomy, extensionMap as
\* main.go:49 makes it, and nothing in the three folders.
InitResolver ==
    /\ goos \in GOOS
    /\ config \in Taxonomies
    /\ extensionMap = EmptyMap
    /\ resolved = NoResolution
    /\ fs = EmptyMap
    /\ dirs = {}
    /\ sortedHashes = EmptyMap
    /\ processedHashes = {}
    /\ pc = "init"
    /\ todo = << >>
    /\ err = "none"
    /\ faults = 0
    /\ fs0 = fs
    /\ index0 = {}
    /\ visited = {}
    /\ tested = {}
    /\ hashCalls = EmptyMap
    /\ moved = {}
    /\ failed = {}
    /\ last = NoCall
    /\ order = << >>
    /\ prev = NoRun
    /\ goroutines = EmptyMap
    /\ wg = 0
    /\ now = 0
    /\ digest = NoDigest

\* The variables of the engine's run.
engineVars == <<fs, dirs, sortedHashes, processedHashes, todo, err, faults, fs0, index0,
                visited, tested, hashCalls, moved, failed, last, order, prev, concVars,
                digest>>

\* main.go:93-113, loadExtensionConfig in init(): extensionMap is built from
\* the decoded taxonomy.
loadExtensionConfig(keys) ==
    /\ pc = "init"
    /\ extensionMap' = buildExtensionMap(config, keys)
    /\ pc' = "start"
    /\ UNCHANGED <<goos, config, resolved, engineVars>>

\* moveFileBasedOnExtension works out the category of a name.
Resolve(n) ==
    /\ pc = "start"
    /\ resolved' = [name |-> n, categoryPath |-> CategoryPath(n)]
    /\ UNCHANGED <<goos, config, extensionMap, pc, engineVars>>

NextResolver ==
    \/ \E keys \in Orders : loadExtensionConfig(keys)
    \/ \E n \in ResolvedNames : Resolve(n)

SpecResolver == InitResolver /\ [][NextResolver]_vars

----------------------------------------------------------------------------
(* collectSortedHashes *)

\* The failures the platform can answer an operation with.
Faults == {"none", "hash", "mkdir", "rehash", "rename"}

\* checkAndSortFiles calls collectSortedHashes, which walks the sorted tree:
\* once to count its files, once to hash them.  With no file counted it
\* returns the empty index at once, which is what the second walk yields.
Begin ==
    /\ fs0' = fs
    /\ sortedHashes' = EmptyMap
    /\ processedHashes' = {}
    /\ err' = "none"
    /\ visited' = {}
    /\ tested' = {}
    /\ hashCalls' = EmptyMap
    /\ moved' = {}
    /\ failed' = {}
    /\ last' = NoCall
    /\ order' = << >>
    /\ index0' = {}
    /\ pc' = "index"
    /\ todo' = <<RootEntry(sortedDir)>>
    /\ UNCHANGED <<fs, dirs, faults>>
    /\ UNCHANGED <<digest, resolverVars, concVars>>

\* The program is run.
StartRun ==
    /\ pc = "start"
    /\ Begin
    /\ UNCHANGED prev

\* The program is run again, on the trees a run without failures left.
Rerun ==
    /\ pc = "done" /\ failed = {}
    /\ Begin
    /\ prev' = [ran |-> TRUE, moved |-> moved # {}]

\* Second pass, a directory: skipped, the walk goes on with its entries.
IndexDir ==
    /\ pc = "index" /\ todo # <<>> /\ Head(todo).kind = "dir"
    /\ todo' = readDirNames(fs, dirs, sortedDir, Head(todo).dir) \o Tail(todo)
    /\ UNCHANGED <<fs, dirs, sortedHashes, processedHashes, pc, err, faults, fs0, index0,
                   visited, tested, hashCalls, moved, failed, last, prev>>
    /\ UNCHANGED <<digest, resolverVars, concVars, order>>

\* The error of fileHash handed back to the walk.
IndexHashFailed_ReturnsErr == "error"

\* main.go:217-222, fileHash failed on a file of the sorted tree: the error
\* is printed and the walk function returns nil.
IndexHashFailed == "nil"

\* Second pass, a file: hashes[hash] = filePath, unless hashing it fails.
IndexFile(fault) ==
    /\ pc = "index" /\ todo # <<>> /\ Head(todo).kind = "file"
    /\ fault \in {"none", "hash"}
    /\ LET filePath == EntryPath(Head(todo))
       IN  IF fault = "hash"
           THEN /\ faults < MaxFail
                /\ faults' = faults + 1
                /\ failed' = failed \cup {filePath}
                /\ UNCHANGED sortedHashes
                /\ IF IndexHashFailed = "nil"
                   THEN todo' = Tail(todo) /\ UNCHANGED <<pc, err>>
                   ELSE todo' = <<>> /\ pc' = "failed" /\ err' = IndexHashFailed
           ELSE /\ sortedHashes' = Put(sortedHashes, fileHash(fs[filePath]), filePath)
                /\ todo' = Tail(todo)
                /\ UNCHANGED <<faults, failed, pc, err>>
    /\ UNCHANGED <<fs, dirs, processedHashes, fs0, index0, visited, tested,
                   hashCalls, moved, last, prev>>
    /\ UNCHANGED <<digest, resolverVars, concVars, order>>

\* collectSortedHashes returns; processedHashes is made and the inbox walk
\* starts.
IndexDone ==
    /\ pc = "index" /\ todo = <<>>
    /\ pc' = "intake"
    /\ todo' = <<RootEntry(inboxDir)>>
    /\ processedHashes' = {}
    /\ index0' = DOMAIN sortedHashes
    /\ UNCHANGED <<fs, dirs, sortedHashes, err, faults, fs0, visited, tested, hashCalls,
                   moved, failed, last, prev>>
    /\ UNCHANGED <<digest, resolverVars, concVars, order>>

----------------------------------------------------------------------------
(* checkAndSortFiles: the walk function of the inbox *)

\* Hidden directories walked like the others.
SkipsDir_NoHidden(n) == MatchesAny(excludeDirs, n)

\* main.go:249-273, a directory: filepath.SkipDir for an excluded or hidden
\* one, so that the walk leaves its entries out.
SkipsDir(n) == MatchesAny(excludeDirs, n) \/ HasDotPrefix(n)

VisitDir ==
    /\ pc = "intake" /\ todo # <<>> /\ Head(todo).kind = "dir"
    /\ LET e == Head(todo)
       IN  /\ todo' = (IF SkipsDir(e.name) THEN <<>>
                       ELSE readDirNames(fs, dirs, inboxDir, e.dir)) \o Tail(todo)
           /\ visited' = visited \cup {e}
           /\ last' = [kind |-> IF SkipsDir(e.name) THEN "skipdir" ELSE "dir",
                       path |-> EntryPath(e), ok |-> TRUE]
    /\ UNCHANGED <<fs, dirs, sortedHashes, processedHashes, pc, err, faults, fs0, index0,
                   tested, hashCalls, moved, failed, prev>>
    /\ UNCHANGED <<digest, resolverVars, concVars, order>>

\* The lookup always missing.
Found_Never(index, hash) == FALSE

\* main.go:334, _, found := sortedHashes[hash]
Found(index, hash) == hash \in DOMAIN index

\* What one call of the walk function on a file did, and what it returned.
Outcome(kind, tree, index, seen, hashes, wasTested, moves, ok, faulted, ret) ==
    [kind |-> kind, fs |-> tree, index |-> index, seen |-> seen, hashes |-> hashes,
     tested |-> wasTested, moves |-> moves, ok |-> ok, faulted |-> faulted, ret |-> ret]

\* A skip that comes after the file was hashed.
Skipped_Hashed(kind, wasTested) ==
    Outcome(kind, fs, sortedHashes, processedHashes, 1, wasTested, {}, TRUE, FALSE, "nil")

\* main.go:277-314, return nil before fileHash: nothing is touched.
Skipped(kind, wasTested) ==
    Outcome(kind, fs, sortedHashes, processedHashes, 0, wasTested, {}, TRUE, FALSE, "nil")

\* The walk function returning the error of fileHash.
HashFailed_ReturnsErr ==
    Outcome("hashfail", fs, sortedHashes, processedHashes, 1, TRUE, {}, FALSE, TRUE, "error")

\* main.go:321-324, fileHash failed: the error is printed, the walk goes on.
HashFailed ==
    Outcome("hashfail", fs, sortedHashes, processedHashes, 1, TRUE, {}, FALSE, TRUE, "nil")

Moves(filePath, m, to) ==
    IF m.ok THEN {[src |-> filePath, dst |-> m.dst, to |-> to, collided |-> m.collided]}
    ELSE {}

\* main.go:275-348, a file.
walkFn(filePath, fault) ==
    LET f == fs[filePath]
        fileName == filePath.name
        hash == fileHash(f)
    IN  IF HasDotPrefix(fileName) THEN Skipped("hidden", FALSE)
        ELSE IF MatchesAny(excludeFiles, fileName) THEN Skipped("excluded", TRUE)
        ELSE IF Size(f) = 0 THEN Skipped("empty", TRUE)
        ELSE IF ContainsInvalidChar(fileName) THEN Skipped("invalid", TRUE)
        ELSE IF f.link THEN Skipped("symlink", TRUE)
        ELSE IF fault = "hash" THEN HashFailed
        ELSE IF hash \in processedHashes
             THEN LET m == moveFileWithMetadata(fs, filePath, deleteDir, fault)
                  IN  Outcome("inrun", m.fs, sortedHashes, processedHashes, 1 + m.hashes,
                              TRUE, Moves(filePath, m, deleteDir), m.ok, m.faulted, "nil")
        ELSE IF Found(sortedHashes, hash)
             THEN LET m == moveFileWithMetadata(fs, filePath, deleteDir, fault)
                  IN  Outcome("crossrun", m.fs, sortedHashes, processedHashes \cup {hash},
                              1 + m.hashes, TRUE, Moves(filePath, m, deleteDir), m.ok,
                              m.faulted, "nil")
        ELSE LET m == moveFileBasedOnExtension(fs, filePath, fault)
             IN  Outcome("novel", m.fs, Put(sortedHashes, hash, filePath),
                         processedHashes \cup {hash}, 1 + m.hashes, TRUE,
                         Moves(filePath, m, sortedDir), m.ok, m.faulted, "nil")

\* filepath.Walk calls the walk function on the next file; an error the
\* function returns ends the walk and is what checkAndSortFiles returns.
VisitFile(fault) ==
    /\ pc = "intake" /\ todo # <<>> /\ Head(todo).kind = "file"
    /\ LET e == Head(todo)
           filePath == EntryPath(e)
           r == walkFn(filePath, fault)
       IN  /\ fault = "none" \/ (r.faulted /\ faults < MaxFail)
           /\ fs' = r.fs
           /\ sortedHashes' = r.index
           /\ processedHashes' = r.seen
           /\ faults' = IF r.faulted THEN faults + 1 ELSE faults
           /\ visited' = visited \cup {e}
           /\ tested' = IF r.tested THEN tested \cup {filePath} ELSE tested
           /\ hashCalls' = IF r.hashes > 0 THEN Put(hashCalls, filePath, r.hashes)
                           ELSE hashCalls
           /\ moved' = moved \cup r.moves
           /\ failed' = IF r.ok THEN failed ELSE failed \cup {filePath}
           /\ last' = [kind |-> r.kind, path |-> filePath, ok |-> r.ok]
           /\ order' = Append(order, [path |-> filePath, kind |-> r.kind])
           /\ IF r.ret = "nil"
              THEN todo' = Tail(todo) /\ UNCHANGED <<pc, err>>
              ELSE todo' = <<>> /\ pc' = "failed" /\ err' = r.ret
    /\ UNCHANGED <<dirs, fs0, index0, prev>>
    /\ UNCHANGED <<digest, resolverVars, concVars>>

\* The error of collectSortedHashes dropped: the intake starts on the index
\* built so far.
WalkError_IndexErrorDropped ==
    /\ pc \in {"index", "intake"} /\ todo # <<>>
    /\ faults < MaxFail
    /\ faults' = faults + 1
    /\ IF pc = "index"
       THEN /\ pc' = "intake"
            /\ todo' = <<RootEntry(inboxDir)>>
            /\ index0' = DOMAIN sortedHashes
            /\ UNCHANGED err
       ELSE /\ pc' = "failed"
            /\ err' = "error"
            /\ todo' = <<>>
            /\ UNCHANGED index0
    /\ UNCHANGED <<fs, dirs, sortedHashes, processedHashes, fs0, visited, tested,
                   hashCalls, moved, failed, last, prev>>
    /\ UNCHANGED <<digest, resolverVars, concVars, order>>

\* main.go:182-184, 204-206, 244-246: the walk could not read an entry and
\* hands the error to the walk function, which returns it; the walk ends and
\* checkAndSortFiles returns the error.
WalkError ==
    /\ pc \in {"index", "intake"} /\ todo # <<>>
    /\ faults < MaxFail
    /\ faults' = faults + 1
    /\ pc' = "failed"
    /\ err' = "error"
    /\ todo' = <<>>
    /\ UNCHANGED <<fs, dirs, sortedHashes, processedHashes, fs0, index0, visited, tested,
                   hashCalls, moved, failed, last, prev>>
    /\ UNCHANGED <<digest, resolverVars, concVars, order>>

\* The walk is over: checkAndSortFiles returns its error, nil.
IntakeDone ==
    /\ pc = "intake" /\ todo = <<>>
    /\ pc' = "done"
    /\ err' = "nil"
    /\ UNCHANGED <<fs, dirs, sortedHashes, processedHashes, todo, faults, fs0, index0,
                   visited, tested, hashCalls, moved, failed, last, prev>>
    /\ UNCHANGED <<digest, resolverVars, concVars, order>>

Next ==
    \/ StartRun
    \/ IndexDir
    \/ \E fault \in Faults : IndexFile(fault)
    \/ IndexDone
    \/ VisitDir
    \/ \E fault \in Faults : VisitFile(fault)
    \/ WalkError
    \/ IntakeDone

Spec == Init /\ [][Next]_vars

\* Runs of the program one after the other.
NextRuns == Next \/ Rerun

SpecRuns == Init /\ [][NextRuns]_vars

----------------------------------------------------------------------------
(* The engine on every platform *)

\* No run has started.
Idle ==
    /\ sortedHashes = EmptyMap
    /\ processedHashes = {}
    /\ pc = "start"
    /\ todo = << >>
    /\ err = "none"
    /\ faults = 0
    /\ fs0 = fs
    /\ index0 = {}
    /\ visited = {}
    /\ tested = {}
    /\ hashCalls = EmptyMap
    /\ moved = {}
    /\ failed = {}
    /\ last = NoCall
    /\ order = << >>
    /\ prev = NoRun
    /\ resolved = NoResolution
    /\ goroutines = EmptyMap
    /\ wg = 0
    /\ now = 0

\* The files an inbox may hold: hidden files and files that match *.tmp next
\* to others, and files below an excluded and below a hidden directory.
ExclusionInboxCandidates ==
    { InboxFile(1, <<>>, <<"a">>, "txt", 1, FALSE),
      InboxFile(3, <<"k">>, <<"a">>, "txt", 1, FALSE),
      InboxFile(6, <<"nm", "sub">>, <<"a">>, "txt", 1, FALSE),
      InboxFile(7, <<".g">>, <<"a">>, "txt", 1, FALSE),
      InboxFile(8, <<>>, <<".h">>, "txt", 1, FALSE),
      InboxFile(9, <<>>, <<"x">>, "tmp", 2, FALSE),
      InboxFile(13, <<"k">>, <<"a">>, "tmp", 2, FALSE) }

\* The engine before a run, on any platform: the exclusion lists are those
\* of the platform.
InitExclusions ==
    \E I \in SUBSET ExclusionInboxCandidates,
       S \in SUBSET {x \in SortedCandidates : x.file.data = 1} :
        /\ Cardinality(I) <= MaxInbox
        /\ fs = TreeOf(I \cup S)
        /\ dirs = UNION {Prefixes(x.path.dir) : x \in I}
        /\ goos \in GOOS
        /\ config = MainConfig
        /\ extensionMap = buildExtensionMap(MainConfig, CHOOSE o \in Orders : TRUE)
        /\ digest = NoDigest
        /\ Idle

SpecExclusions == InitExclusions /\ [][Next]_vars

----------------------------------------------------------------------------
(* main: removeEmptyDirs after checkAndSortFiles *)

\* The files an inbox may hold: files of one content at the top, in a
\* directory and its subdirectory, below an excluded directory and in a
\* hidden one.
MainInboxCandidates ==
    { InboxFile(1, <<>>, <<"a">>, "txt", 1, FALSE),
      InboxFile(3, <<"k">>, <<"a">>, "txt", 1, FALSE),
      InboxFile(5, <<"k", "sub">>, <<"a">>, "txt", 1, FALSE),
      InboxFile(6, <<"nm", "sub">>, <<"a">>, "txt", 1, FALSE),
      InboxFile(7, <<".g">>, <<"a">>, "txt", 1, FALSE) }

\* Directories an inbox may hold apart from those of its files: one below
\* a directory that is walked, an excluded one, and one below a hidden one.
DirCandidates == { <<"k", "sub">>, <<"nm">>, <<".g", "sub">> }

\* The program before main.
InitMain ==
    \E I \in SUBSET MainInboxCandidates, E \in SUBSET DirCandidates,
       S \in SUBSET {x \in SortedCandidates : x.file.data = 1} :
        /\ Cardinality(I) <= MaxInbox
        /\ fs = TreeOf(I \cup S)
        /\ dirs = UNION {Prefixes(x.path.dir) : x \in I} \cup UNION {Prefixes(d) : d \in E}
        /\ goos = "linux"
        /\ config = MainConfig
        /\ extensionMap = buildExtensionMap(MainConfig, CHOOSE o \in Orders : TRUE)
        /\ digest = NoDigest
        /\ Idle

\* What removeEmptyDirs leaves alone.
cleanUnused ==
    <<fs, sortedHashes, processedHashes, fs0, index0, visited, tested, hashCalls, moved,
      failed, last, order, prev, resolverVars, concVars, digest>>

\* main.go:476-482, checkAndSortFiles has returned, with an error or
\* without one: main prints which and calls removeEmptyDirs(inboxDir).
CleanStart ==
    /\ pc \in {"done", "failed"}
    /\ pc' = "clean"
    /\ todo' = <<RootEntry(inboxDir)>>
    /\ UNCHANGED <<dirs, err, faults, cleanUnused>>

\* main.go:455-472, the walk function of removeEmptyDirs: nil for the root
\* and for a file; a directory that os.ReadDir finds empty is removed with
\* os.Remove, whose error ends the walk.  No name is matched against the
\* exclusion lists, and none is looked at for a leading '.'.
CleanVisit(fault) ==
    /\ pc = "clean" /\ todo # <<>>
    /\ fault \in {"none", "remove"}
    /\ LET e == Head(todo)
           entries == readDirNames(fs, dirs, inboxDir, e.dir)
       IN  IF e.kind = "file" \/ e.dir = <<>>
           THEN /\ fault = "none"
                /\ todo' = (IF e.kind = "dir" THEN entries ELSE <<>>) \o Tail(todo)
                /\ UNCHANGED <<dirs, pc, err, faults>>
           ELSE IF entries # <<>>
           THEN /\ fault = "none"
                /\ todo' = entries \o Tail(todo)
                /\ UNCHANGED <<dirs, pc, err, faults>>
           ELSE IF fault = "remove"
           THEN /\ faults < MaxFail
                /\ faults' = faults + 1
                /\ pc' = "exit"
                /\ err' = "error"
                /\ todo' = <<>>
                /\ UNCHANGED dirs
           ELSE /\ dirs' = dirs \ {e.dir}
                /\ todo' = Tail(todo)
                /\ UNCHANGED <<pc, err, faults>>
    /\ UNCHANGED cleanUnused

\* The walk of removeEmptyDirs is over, and main returns.
CleanDone ==
    /\ pc = "clean" /\ todo = <<>>
    /\ pc' = "exit"
    /\ err' = "nil"
    /\ UNCHANGED <<dirs, todo, faults, cleanUnused>>

NextMain ==
    \/ Next
    \/ CleanStart
    \/ \E fault \in {"none", "remove"} : CleanVisit(fault)
    \/ CleanDone

SpecMain == InitMain /\ [][NextMain]_vars

----------------------------------------------------------------------------
(* The concurrent variant, src/unnamed/part_002: one goroutine per inbox file *)

\* The files the inbox of the concurrent variant may hold: three of one
\* content, two of them of the same name, and one below a hidden
\* directory, which this variant walks.
ConcInboxCandidates ==
    { InboxFile(1, <<>>, <<"a">>, "txt", 1, FALSE),
      InboxFile(2, <<>>, <<"b">>, "zz", 1, FALSE),
      InboxFile(3, <<"k">>, <<"a">>, "txt", 1, FALSE),
      InboxFile(7, <<".g">>, <<"a">>, "txt", 2, FALSE),
      InboxFile(8, <<>>, <<".h">>, "txt", 1, FALSE) }

ConcSortedCandidates ==
    { [path |-> Path(sortedDir, <<"Miscellaneous">>, Name(<<"b">>, "txt")),
       file |-> File(23, 1, FALSE)] }

\* The run of the concurrent variant has not started.
InitConcurrent ==
    \E I \in SUBSET ConcInboxCandidates, S \in SUBSET ConcSortedCandidates :
        /\ Cardinality(I) <= MaxInbox
        /\ Cardinality(S) <= MaxSorted
        /\ fs = TreeOf(I \cup S)
        /\ dirs = UNION {Prefixes(x.path.dir) : x \in I}
        /\ sortedHashes = EmptyMap
        /\ processedHashes = {}
        /\ pc = "start"
        /\ todo = << >>
        /\ err = "none"
        /\ faults = 0
        /\ fs0 = fs
        /\ index0 = {}
        /\ visited = {}
        /\ tested = {}
        /\ hashCalls = EmptyMap
        /\ moved = {}
        /\ failed = {}
        /\ last = NoCall
        /\ order = << >>
        /\ prev = NoRun
        /\ goos = "windows"
        /\ config = NoGroups
        /\ extensionMap = EmptyMap
        /\ resolved = NoResolution
        /\ goroutines = EmptyMap
        /\ wg = 0
        /\ now = 0
        /\ digest = NoDigest

\* What the concurrent actions leave alone.
concUnused == <<dirs, processedHashes, index0, visited, tested, hashCalls, moved, failed,
                last, order, prev, resolverVars, digest>>

\* part_002:68-75, checkAndSortFiles calls collectSortedHashes.
ConcStart ==
    /\ pc = "start"
    /\ pc' = "cindex"
    /\ todo' = <<RootEntry(sortedDir)>>
    /\ sortedHashes' = EmptyMap
    /\ fs0' = fs
    /\ UNCHANGED <<fs, err, faults, concVars, concUnused>>

\* part_002:49-52, a directory of the sorted tree.
ConcIndexDir ==
    /\ pc = "cindex" /\ todo # <<>> /\ Head(todo).kind = "dir"
    /\ todo' = readDirNames(fs, dirs, sortedDir, Head(todo).dir) \o Tail(todo)
    /\ UNCHANGED <<fs, sortedHashes, pc, err, faults, fs0, concVars, concUnused>>

\* part_002:54-61, a file of the sorted tree.
ConcIndexFile(fault) ==
    /\ pc = "cindex" /\ todo # <<>> /\ Head(todo).kind = "file"
    /\ fault \in {"none", "hash"}
    /\ IF fault = "hash"
       THEN faults < MaxFail /\ faults' = faults + 1 /\ UNCHANGED sortedHashes
       ELSE /\ sortedHashes' = Put(sortedHashes, fileHash(fs[EntryPath(Head(todo))]),
                                   EntryPath(Head(todo)))
            /\ UNCHANGED faults
    /\ todo' = Tail(todo)
    /\ UNCHANGED <<fs, pc, err, fs0, concVars, concUnused>>

\* part_002:64-78, collectSortedHashes returns and the inbox walk starts.
ConcIndexDone ==
    /\ pc = "cindex" /\ todo = <<>>
    /\ pc' = "cwalk"
    /\ todo' = <<RootEntry(inboxDir)>>
    /\ UNCHANGED <<fs, sortedHashes, err, faults, fs0, concVars, concUnused>>

\* A goroutine: where it is, the digest it computed, what the lookup said.
Goroutine(at, hash, found) == [pc |-> at, hash |-> hash, found |-> found]

NoHash == <<"", 0>>

\* part_002:78-114, the walk function: a directory or a name beginning with
\* '.' returns nil (the walk goes into a hidden directory); for any other file
\* wg.Add(1) and a goroutine is started.
ConcVisit ==
    /\ pc = "cwalk" /\ todo # <<>>
    /\ LET e == Head(todo)
       IN  IF e.kind = "dir"
           THEN /\ todo' = readDirNames(fs, dirs, inboxDir, e.dir) \o Tail(todo)
                /\ UNCHANGED <<goroutines, wg>>
           ELSE /\ todo' = Tail(todo)
                /\ IF HasDotPrefix(e.name) THEN UNCHANGED <<goroutines, wg>>
                   ELSE /\ goroutines' = Put(goroutines, EntryPath(e),
                                             Goroutine("hash", NoHash, FALSE))
                        /\ wg' = wg + 1
    /\ UNCHANGED <<fs, sortedHashes, pc, err, faults, fs0, now, concUnused>>

\* part_002:45-47, 79-81: the walk hands an error to the walk function.  From
\* collectSortedHashes checkAndSortFiles returns it at once; from the inbox
\* walk it is kept and wg.Wait() comes first.
ConcWalkError ==
    /\ pc \in {"cindex", "cwalk"} /\ todo # <<>>
    /\ faults < MaxFail
    /\ faults' = faults + 1
    /\ err' = "error"
    /\ todo' = <<>>
    /\ pc' = IF pc = "cindex" THEN "failed" ELSE "cwait"
    /\ UNCHANGED <<fs, sortedHashes, fs0, concVars, concUnused>>

\* part_002:114-116, the inbox walk is over: wg.Wait().
ConcWalkDone ==
    /\ pc = "cwalk" /\ todo = <<>>
    /\ pc' = "cwait"
    /\ err' = "nil"
    /\ UNCHANGED <<fs, sortedHashes, todo, faults, fs0, concVars, concUnused>>

\* The goroutines run while the main goroutine walks or waits.
Running == pc \in {"cwalk", "cwait"}

\* part_002:101, _, found := sortedHashes[hash]
Lookup(index, hash) == hash \in DOMAIN index

\* part_002:94-101, fileHash and the lookup in the shared map; a failed
\* fileHash ends the goroutine (defer wg.Done()).
GoLookup(p, fault) ==
    /\ Running /\ p \in DOMAIN goroutines /\ goroutines[p].pc = "hash"
    /\ fault \in {"none", "hash"}
    /\ IF fault = "hash"
       THEN /\ faults < MaxFail
            /\ faults' = faults + 1
            /\ goroutines' = Put(goroutines, p, Goroutine("failed", NoHash, FALSE))
            /\ wg' = wg - 1
       ELSE /\ goroutines' = Put(goroutines, p,
                                 Goroutine("move", fileHash(fs[p]),
                                           Lookup(sortedHashes, fileHash(fs[p]))))
            /\ UNCHANGED <<faults, wg>>
    /\ UNCHANGED <<fs, sortedHashes, pc, todo, err, fs0, now, concUnused>>

\* time.Now().Format("20060102_150405"), by the second it is read in
Timestamp(t) == CASE t = 0 -> "t0" [] t = 1 -> "t1" [] t = 2 -> "t2" [] OTHER -> "t3"

\* part_002:150, fmt.Sprintf("%s_processed_%s_delete%s", baseName, timestamp, ext)
ConcMetadataName(n, t) == Name(n.stem \o <<"processed", Timestamp(t), "delete">>, n.ext)

\* part_002:104 and 138-160, moveFileWithMetadata: the errors are dropped;
\* time.Now() is the second read last or a later one.  The goroutine ends.
GoQuarantine(p, fault, t) ==
    /\ Running /\ p \in DOMAIN goroutines
    /\ goroutines[p].pc = "move" /\ goroutines[p].found
    /\ t \in {now, now + 1} /\ t <= MaxTick
    /\ fault \in {"none", "rename"}
    /\ IF fault = "rename"
       THEN faults < MaxFail /\ faults' = faults + 1 /\ UNCHANGED fs
       ELSE /\ fs' = Rename(fs, p, Path(deleteDir, <<>>, ConcMetadataName(p.name, t)))
            /\ UNCHANGED faults
    /\ now' = t
    /\ goroutines' = Put(goroutines, p, [goroutines[p] EXCEPT !.pc = "done"])
    /\ wg' = wg - 1
    /\ UNCHANGED <<sortedHashes, pc, todo, err, fs0, concUnused>>

\* part_002:107-108 and 120-135, moveFile into sorted/Miscellaneous under
\* the file's own name; the error is dropped.
GoPlace(p, fault) ==
    /\ Running /\ p \in DOMAIN goroutines
    /\ goroutines[p].pc = "move" /\ ~goroutines[p].found
    /\ fault \in {"none", "rename"}
    /\ IF fault = "rename"
       THEN faults < MaxFail /\ faults' = faults + 1 /\ UNCHANGED fs
       ELSE /\ fs' = Rename(fs, p, Path(sortedDir, <<"Miscellaneous">>, p.name))
            /\ UNCHANGED faults
    /\ goroutines' = Put(goroutines, p, [goroutines[p] EXCEPT !.pc = "insert"])
    /\ UNCHANGED <<sortedHashes, pc, todo, err, fs0, wg, now, concUnused>>

\* part_002:109, sortedHashes[hash] = filePath, and the goroutine ends.
GoInsert(p) ==
    /\ Running /\ p \in DOMAIN goroutines /\ goroutines[p].pc = "insert"
    /\ sortedHashes' = Put(sortedHashes, goroutines[p].hash, p)
    /\ goroutines' = Put(goroutines, p, [goroutines[p] EXCEPT !.pc = "done"])
    /\ wg' = wg - 1
    /\ UNCHANGED <<fs, pc, todo, err, faults, fs0, now, concUnused>>

\* The map is not guarded: with one goroutine at its write and another at
\* its read or write, the Go runtime may end the program with "fatal error:
\* concurrent map writes" (or "map read and map write").
ConcMapFatal ==
    /\ Running
    /\ \E p, q \in DOMAIN goroutines :
          p # q /\ goroutines[p].pc = "insert" /\ goroutines[q].pc \in {"hash", "insert"}
    /\ pc' = "fatal"
    /\ UNCHANGED <<fs, sortedHashes, todo, err, faults, fs0, concVars, concUnused>>

\* The return without wg.Wait().
ConcReturn_NoWait ==
    /\ pc = "cwait"
    /\ pc' = IF err = "nil" THEN "done" ELSE "failed"
    /\ UNCHANGED <<fs, sortedHashes, todo, err, faults, fs0, concVars, concUnused>>

\* part_002:116-117, wg.Wait() returns when the counter is 0, and
\* checkAndSortFiles returns the error of the walk.
ConcReturn ==
    /\ pc = "cwait" /\ wg = 0
    /\ pc' = IF err = "nil" THEN "done" ELSE "failed"
    /\ UNCHANGED <<fs, sortedHashes, todo, err, faults, fs0, concVars, concUnused>>

NextConcurrent ==
    \/ ConcStart
    \/ ConcIndexDir
    \/ \E fault \in Faults : ConcIndexFile(fault)
    \/ ConcIndexDone
    \/ ConcVisit
    \/ ConcWalkError
    \/ ConcWalkDone
    \/ \E p \in DOMAIN goroutines, fault \in Faults : GoLookup(p, fault)
    \/ \E p \in DOMAIN goroutines, fault \in Faults, t \in 0..MaxTick : GoQuarantine(p, fault, t)
    \/ \E p \in DOMAIN goroutines, fault \in Faults : GoPlace(p, fault)
    \/ \E p \in DOMAIN goroutines : GoInsert(p)
    \/ ConcMapFatal
    \/ ConcReturn

SpecConcurrent == InitConcurrent /\ [][NextConcurrent]_vars

----------------------------------------------------------------------------
(* fileHash: the digest as a string *)

\* A 64-bit value as its 16 hexadecimal digits, the highest first: zeros
\* digits 0, then the digit d.
Word64(zeros, d) == [i \in 1..16 |-> IF i <= zeros THEN 0 ELSE d]

\* Values hash.Sum64() may return: of every number of leading zero digits,
\* the value 0 among them.
Sum64Values == {Word64(zeros, d) : zeros \in 0..16, d \in {1, 10, 15}}

HexDigits == <<"0", "1", "2", "3", "4", "5", "6", "7", "8", "9", "a", "b", "c", "d", "e", "f">>

\* The digits of a value from its first digit that is not 0; the last
\* digit for the value 0.
RECURSIVE Significant(_)
Significant(v) == IF Len(v) > 1 /\ Head(v) = 0 THEN Significant(Tail(v)) ELSE v

\* main.go:155, fmt.Sprintf("%x", v): no width is given, so the string has
\* the significant digits only.
Sprintf_x(v) == [i \in 1..Len(Significant(v)) |-> HexDigits[Significant(v)[i] + 1]]

\* A file whose content has some digest is about to be hashed.
InitHasher ==
    /\ digest \in {[sum |-> v, hash |-> <<>>, hashPrefix |-> <<>>] : v \in Sum64Values}
    /\ fs = EmptyMap
    /\ dirs = {}
    /\ goos = "linux"
    /\ config = NoGroups
    /\ extensionMap = EmptyMap
    /\ Idle

\* What fileHash and the slicing of its result leave alone.
hasherUnused ==
    <<fs, dirs, sortedHashes, processedHashes, todo, err, faults, fs0, index0, visited,
      tested, hashCalls, moved, failed, last, order, prev, resolverVars, concVars>>

\* main.go:142-156, fileHash returns the digest string.
HashFile ==
    /\ pc = "start"
    /\ digest' = [digest EXCEPT !.hash = Sprintf_x(digest.sum)]
    /\ pc' = "hashed"
    /\ UNCHANGED hasherUnused

\* main.go:375 in moveFile and main.go:408 in moveFileWithMetadata,
\* hashPrefix := hash[:6]: a slice bound beyond the length of the string is
\* a run-time panic, which ends the program.
TakePrefix(by) ==
    /\ pc = "hashed"
    /\ IF Len(digest.hash) >= 6
       THEN /\ digest' = [digest EXCEPT !.hashPrefix = SubSeq(digest.hash, 1, 6)]
            /\ pc' = by
       ELSE /\ pc' = "panic"
            /\ UNCHANGED digest
    /\ UNCHANGED hasherUnused

NextHasher ==
    \/ HashFile
    \/ \E by \in {"moveFile", "moveFileWithMetadata"} : TakePrefix(by)

SpecHasher == InitHasher /\ [][NextHasher]_vars

----------------------------------------------------------------------------
(* What the claims speak of *)

Ids(tree, root) == {tree[p].id : p \in PathsUnder(tree, root)}

Datas(tree, root) == {tree[p].data : p \in PathsUnder(tree, root)}

\* A directory name that matches a directory exclusion pattern or begins
\* with '.'.
DirExcluded(t) == MatchesAny(excludeDirs, DirName(t)) \/ HasDotPrefix(DirName(t))

\* No directory on the way to p is excluded.
Reached(p) == \A i \in 1..Len(p.dir) : ~DirExcluded(p.dir[i])

\* Zero length, a name with an unsafe character, or a symbolic link.
Ineligible(p, f) == (f.data = 0 /\ ~f.link) \/ ContainsInvalidChar(p.name) \/ f.link

Excluded(p) == HasDotPrefix(p.name) \/ MatchesAny(excludeFiles, p.name)

SkipKinds == {"hidden", "excluded", "empty", "invalid", "symlink"}

\* The inbox files of the run's start that the engine has to evaluate.
Candidates == {p \in PathsUnder(fs0, inboxDir) :
                  Reached(p) /\ ~Excluded(p) /\ ~Ineligible(p, fs0[p])}

Group(d) == {p \in Candidates : fs0[p].data = d}

----------------------------------------------------------------------------
(* C1 *)

\* C1: at the end of a run, of every group of eligible inbox files of equal
\* content that the sorted tree did not hold, exactly one file is in a
\* category folder and every other one is in the delete folder.  Stated here
\* for the runs in which no operation failed, which the claim includes.
C1_OneKeptRestQuarantined ==
    (pc = "done" /\ failed = {}) =>
        \A d \in 1..3 :
            (Group(d) # {} /\ d \notin Datas(fs0, sortedDir)) =>
                LET ids == {fs0[p].id : p \in Group(d)}
                IN  /\ Cardinality(ids \cap Ids(fs, sortedDir)) = 1
                    /\ (ids \ Ids(fs, sortedDir)) \subseteq Ids(fs, deleteDir)

----------------------------------------------------------------------------
(* C3 *)

\* C3: whenever a file has just been moved into the delete folder, a file of
\* the same content is in the sorted tree.
C3_QuarantinedHasCopyInSorted ==
    (last.kind \in {"inrun", "crossrun"} /\ last.ok) =>
        fs0[last.path].data \in Datas(fs, sortedDir)

----------------------------------------------------------------------------
(* C4 *)

\* C4: placing a file in a category folder replaces no file: every file the
\* sorted tree held when the run started, and every file the run placed, is
\* still at its path with its content.
C4_MoveFileNeverReplaces ==
    /\ \A p \in PathsUnder(fs0, sortedDir) : p \in DOMAIN fs /\ fs[p] = fs0[p]
    /\ \A m \in moved : m.to = sortedDir => (m.dst \in DOMAIN fs /\ fs[m.dst] = fs0[m.src])

----------------------------------------------------------------------------
(* C5 *)

\* C5: no file is lost: every file that existed when the run started still
\* exists, at one path of the three trees.
C5_NoFileLost ==
    \A p \in DOMAIN fs0 : \E q \in DOMAIN fs : fs[q] = fs0[p]

----------------------------------------------------------------------------
(* C2 *)

\* C2 as claimed: at the end of a run every evaluated inbox file whose content
\* a file of the sorted tree had when the run started has been moved to the
\* delete folder, and none into a category folder.  Files on which an
\* operation failed are left aside.
C2_DuplicateOfSortedIsQuarantined ==
    pc = "done" =>
        \A p \in Candidates :
            (fs0[p].data \in Datas(fs0, sortedDir) /\ p \notin failed) =>
                \E m \in moved : m.src = p /\ m.to = deleteDir

\* C2 as amended: an evaluated inbox file whose digest is in the index built
\* at the start of the run is never placed in a category folder; once the
\* walk function has been called on it, it has been moved to the delete
\* folder, or an operation on it failed and it is at its inbox path, as it
\* was.
C2_IndexedDuplicateIsQuarantined ==
    \A p \in Candidates :
        fileHash(fs0[p]) \in index0 =>
            /\ fs0[p].id \notin Ids(fs, sortedDir)
            /\ \A m \in moved : m.src = p => m.to = deleteDir
            /\ FileEntry(p) \in visited =>
                  \/ \E m \in moved : m.src = p /\ m.to = deleteDir
                  \/ p \in failed /\ p \in DOMAIN fs /\ fs[p] = fs0[p]

\* A run has ended in which a duplicate of an indexed sorted file was moved
\* to the delete folder.
C2_Witness ==
    /\ pc = "done"
    /\ \E m \in moved : m.to = deleteDir /\ fileHash(fs0[m.src]) \in index0

----------------------------------------------------------------------------
(* C6 *)

\* C6: a run that follows a run without failures moves no file: the trees
\* stay as they were when it started, and every inbox file it comes to is
\* skipped.
C6_SecondRunMovesNothing ==
    prev.ran =>
        /\ fs = fs0
        /\ moved = {}
        /\ last.kind \in SkipKinds \cup {"none", "dir", "skipdir"}

\* A second run has ended, after a first run that moved files and left
\* files in the inbox, which the second run came to and skipped.
C6_Witness ==
    /\ prev.ran /\ prev.moved /\ pc = "done"
    /\ last.kind \in SkipKinds
    /\ last.path \in DOMAIN fs

----------------------------------------------------------------------------
(* C7 *)

\* C7: below an inbox directory whose name matches a directory exclusion
\* pattern or begins with '.', the walk function is called on no entry, and
\* no file is matched against the file patterns, hashed or moved; the files
\* that are below no such directory have all been visited when the run ends.
C7_ExcludedSubtreeNotVisited ==
    /\ \A e \in visited :
          \A i \in 1..(Len(e.dir) - (IF e.kind = "dir" THEN 1 ELSE 0)) : ~DirExcluded(e.dir[i])
    /\ \A p \in tested \cup DOMAIN hashCalls \cup {m.src : m \in moved} : Reached(p)
    /\ \A p \in PathsUnder(fs0, inboxDir) : ~Reached(p) => (p \in DOMAIN fs /\ fs[p] = fs0[p])
    /\ pc = "done" => \A p \in PathsUnder(fs0, inboxDir) : Reached(p) => FileEntry(p) \in visited

\* A run has ended that skipped a directory with a file two levels below it
\* and moved a file of another directory.
C7_Witness ==
    /\ pc = "done"
    /\ \E p \in PathsUnder(fs, inboxDir) : Len(p.dir) = 2 /\ DirExcluded(p.dir[1])
    /\ \E m \in moved : Len(m.src.dir) > 0

----------------------------------------------------------------------------
(* C8 *)

\* C8: the call of the walk function on an inbox file of zero length, with an
\* unsafe character in its name, or that is a symbolic link changes nothing:
\* the trees, the index, the seen set and the record of hashed files stay as
\* they are and the walk goes on; a walk that comes to its end returns nil.
C8_IneligibleSkippedWithoutEffect ==
    /\ [][(/\ pc = "intake" /\ todo # <<>> /\ Head(todo).kind = "file"
           /\ Ineligible(EntryPath(Head(todo)), fs[EntryPath(Head(todo))])
           /\ Head(todo) \in visited')
          => /\ UNCHANGED <<fs, sortedHashes, processedHashes, hashCalls, moved, failed>>
             /\ UNCHANGED <<pc, err>>
             /\ todo' = Tail(todo)]_vars
    /\ [](pc = "done" => err = "nil")

\* A run has ended with success whose last file was ineligible and is still
\* at its path.
C8_Witness ==
    /\ pc = "done" /\ err = "nil"
    /\ last.kind \in {"empty", "invalid", "symlink"}
    /\ last.path \in DOMAIN fs /\ fs[last.path] = fs0[last.path]
    /\ last.path \notin DOMAIN hashCalls

----------------------------------------------------------------------------
(* C9 *)

\* C9: an inbox file on which hashing or moving failed is at its inbox path
\* with its content; the failure does not end the walk: while only such
\* failures happen the run is not failed, and at its end every inbox file
\* below no excluded directory has been visited and the result is nil.
C9_PerFileFailureIsolated ==
    /\ \A p \in failed : p.root = inboxDir => (p \in DOMAIN fs /\ fs[p] = fs0[p])
    /\ (failed # {} /\ faults = Cardinality(failed)) => pc # "failed"
    /\ pc = "done" =>
          /\ err = "nil"
          /\ \A p \in PathsUnder(fs0, inboxDir) : Reached(p) => FileEntry(p) \in visited

\* A run has ended with nil in which an operation on an inbox file failed
\* and a later file was moved.
C9_Witness ==
    /\ pc = "done" /\ err = "nil"
    /\ \E p \in failed : p.root = inboxDir
    /\ last.kind \in {"inrun", "crossrun", "novel"} /\ last.ok

----------------------------------------------------------------------------
(* C10 *)

\* C10: a file moved to the delete folder is at <base>_<first 6 characters
\* of its digest>_processed_delete<ext>; a file placed in a category folder
\* whose plain name was free keeps its name.
C10_Names ==
    \A m \in moved :
        /\ m.to = deleteDir =>
              m.dst = Path(deleteDir, <<>>,
                           Name(m.src.name.stem
                                  \o <<Sum64[fs0[m.src].data][1], "processed", "delete">>,
                                m.src.name.ext))
        /\ (m.to = sortedDir /\ ~m.collided) => m.dst.name = m.src.name

\* A file was moved to the delete folder while that folder held a file of
\* its plain name, and a file was placed under its own name.
C10_Witness ==
    /\ \E m \in moved : /\ m.to = deleteDir
                        /\ Path(deleteDir, <<>>, m.src.name) \in DOMAIN fs
    /\ \E m \in moved : m.to = sortedDir /\ ~m.collided

----------------------------------------------------------------------------
(* C11 *)

\* The key moveFileBasedOnExtension looks a name up with.
LookupKey(n) ==
    IF HasSidecarPrefix(n) /\ goos = "darwin" THEN "_*"
    ELSE IF n.ext = "" THEN "no_extension"
    ELSE ToLower(n.ext)

\* C11 as claimed: a name with an extension (not a sidecar name) whose
\* lower-cased extension is no key of the extension map is resolved to
\* Miscellaneous/<extension upper-cased>.
C11_FallbackIsMiscellaneous ==
    (/\ resolved # NoResolution
     /\ resolved.name.ext # "" /\ ~HasSidecarPrefix(resolved.name)
     /\ ToLower(resolved.name.ext) \notin DOMAIN extensionMap)
        => resolved.categoryPath = <<"Miscellaneous", ToUpper(resolved.name.ext)>>

\* C11 as amended: every name is resolved to a category path, and a name
\* whose lookup key (the lower-cased extension; no_extension for a name
\* without one; _* for a name beginning with "._" on darwin) is no key of the
\* extension map is resolved to Misc/<key upper-cased>.
C11_FallbackIsMisc ==
    resolved # NoResolution =>
        /\ resolved.categoryPath # <<>>
        /\ LookupKey(resolved.name) \notin DOMAIN extensionMap =>
              resolved.categoryPath = <<"Misc", ToUpper(LookupKey(resolved.name))>>
        /\ LookupKey(resolved.name) \in DOMAIN extensionMap =>
              resolved.categoryPath = extensionMap[LookupKey(resolved.name)]

\* b.ZZ was resolved with no entry for zz, to Misc/ZZ.
C11_Witness ==
    /\ resolved.name = Name(<<"b">>, "ZZ")
    /\ "zz" \notin DOMAIN extensionMap
    /\ resolved.categoryPath = <<"Misc", "ZZ">>

----------------------------------------------------------------------------
(* C12 *)

\* The nodes of a taxonomy: the path of names down to each, and the
\* extensions it lists.
RECURSIVE NodesOf(_, _)
NodesOf(path, groups) ==
    UNION { {[path |-> Append(path, g), exts |-> groups[g].Extensions]}
            \cup NodesOf(Append(path, g), groups[g].Subcategories) : g \in DOMAIN groups }

\* Each extension, letter case aside, is listed by one node only.
ListedOnce(cfg) ==
    \A x, y \in NodesOf(<<>>, cfg) :
        \A i \in DOMAIN x.exts, j \in DOMAIN y.exts :
            ToLower(x.exts[i]) = ToLower(y.exts[j]) => x = y

\* Names that differ in the letter case of the extension are resolved alike.
CaseInsensitive ==
    \A n, m \in ResolvedNames :
        (n.stem = m.stem /\ {n.ext, m.ext} \in {{"txt", "TXT"}, {"zz", "ZZ"}})
            => CategoryPath(n) = CategoryPath(m)

\* C12 as claimed: with each extension listed by one node only, the map has
\* for every listed extension, lower-cased, the path of names down to the
\* node that lists it, and names that differ only in the letter case of the
\* extension are resolved to the same category.
C12_MapHasPathOfListingNode ==
    (pc = "start" /\ ListedOnce(config)) =>
        /\ \A x \in NodesOf(<<>>, config) : \A i \in DOMAIN x.exts :
              /\ ToLower(x.exts[i]) \in DOMAIN extensionMap
              /\ extensionMap[ToLower(x.exts[i])] = x.path
        /\ CaseInsensitive

\* C12 as amended: the same for every listed extension but "_", the key of
\* the fixed entry, which is System/Attribute_Files whatever node lists it.
C12_MapHasPathOfListingNodeButReserved ==
    (pc = "start" /\ ListedOnce(config)) =>
        /\ \A x \in NodesOf(<<>>, config) : \A i \in DOMAIN x.exts :
              ToLower(x.exts[i]) # "_" =>
                  /\ ToLower(x.exts[i]) \in DOMAIN extensionMap
                  /\ extensionMap[ToLower(x.exts[i])] = x.path
        /\ extensionMap["_"] = <<"System", "Attribute_Files">>
        /\ CaseInsensitive

\* The map was built from the taxonomy with txt below Documents/Text, and
\* a.TXT was resolved to Documents/Text.
C12_Witness ==
    /\ pc = "start" /\ config = MainConfig
    /\ resolved.name = Name(<<"a">>, "TXT")
    /\ resolved.categoryPath = <<"Documents", "Text">>

----------------------------------------------------------------------------
(* C13 *)

\* C13: whatever the taxonomy, a name without extension is resolved to an
\* entry of the map, and on darwin a name beginning with "._" is resolved to
\* System/Attribute_Files.
C13_ReservedEntries ==
    (pc = "start" /\ resolved # NoResolution) =>
        /\ resolved.name.ext = "" =>
              \E k \in DOMAIN extensionMap : resolved.categoryPath = extensionMap[k]
        /\ (HasSidecarPrefix(resolved.name) /\ goos = "darwin") =>
              resolved.categoryPath = <<"System", "Attribute_Files">>

----------------------------------------------------------------------------
(* C14 *)

\* The inbox files of a digest that their goroutines classified as novel.
Novel(hash) ==
    {p \in DOMAIN goroutines :
        /\ goroutines[p].pc \in {"move", "insert", "done"}
        /\ goroutines[p].hash = hash /\ ~goroutines[p].found}

\* C14: in the concurrent variant, of the inbox files of one content at most
\* one is classified as novel, and at most one is placed in sorted.
C14_AtMostOneNovelPerDigest ==
    \A d \in 1..3 :
        /\ Cardinality(Novel(Sum64[d])) <= 1
        /\ Cardinality({p \in PathsUnder(fs0, inboxDir) :
                           /\ fs0[p].data = d
                           /\ fs0[p].id \in {fs[q].id : q \in PathsUnder(fs, sortedDir)}}) <= 1

----------------------------------------------------------------------------
(* C15 *)

\* The positions in the walk of the calls on the files of a group.
Calls(G) == {i \in DOMAIN order : order[i].path \in G}

\* The contents of eligible inbox files that the index did not hold when the
\* intake started.
NovelContents == {d \in 1..3 : Group(d) # {} /\ Sum64[d] \notin index0}

Placed(p) == \E m \in moved : m.src = p /\ m.to = sortedDir

Quarantined(p) == \E m \in moved : m.src = p /\ m.to = deleteDir

\* C15 as claimed: of the inbox files of one novel content, a file placed in
\* a category folder is the one the walk came to first, and at the end of the
\* run every one the walk came to later is in the delete folder.
C15_FirstEncounteredIsKept ==
    \A d \in NovelContents :
        \A i \in Calls(Group(d)) :
            /\ Placed(order[i].path) => \A j \in Calls(Group(d)) : i <= j
            /\ (pc = "done" /\ \E j \in Calls(Group(d)) : j < i) => Quarantined(order[i].path)

\* C15 as amended: a file placed in a category folder is the first of its
\* content that the walk came to and could hash; every one the walk came to
\* after that one is never placed: it was moved to the delete folder, or an
\* operation on it failed and it is at its inbox path, as it was.
C15_FirstHashedIsKept ==
    \A j \in DOMAIN order :
        LET q == order[j].path
            hashedBefore ==
                {i \in 1..(j - 1) : /\ order[i].kind \in {"inrun", "crossrun", "novel"}
                                    /\ fs0[order[i].path].data = fs0[q].data}
        IN  (/\ order[j].kind \in {"hashfail", "inrun", "crossrun", "novel"}
             /\ Sum64[fs0[q].data] \notin index0) =>
                /\ Placed(q) => (order[j].kind # "hashfail" /\ hashedBefore = {})
                /\ hashedBefore # {} =>
                      /\ order[j].kind \in {"inrun", "hashfail"}
                      /\ \/ Quarantined(q)
                         \/ q \in failed /\ q \in DOMAIN fs /\ fs[q] = fs0[q]

\* A run has ended in which the first file of a novel content was placed
\* and a later one of the same content was moved to the delete folder.
C15_Witness ==
    /\ pc = "done"
    /\ \E d \in NovelContents :
          \E i, j \in Calls(Group(d)) :
              i < j /\ Placed(order[i].path) /\ Quarantined(order[j].path)

----------------------------------------------------------------------------
(* C16 *)

\* The directories of a tree, and the entries below a directory.
DirsOf(root) ==
    UNION {Prefixes(p.dir) : p \in PathsUnder(fs, root)} \cup (IF root = inboxDir THEN dirs ELSE {})

Below(e) ==
    Cardinality({p \in PathsUnder(fs, e.root) : IsPrefix(e.dir, p.dir)})
    + Cardinality({x \in DirsOf(e.root) : IsPrefix(e.dir, x) /\ Len(x) > Len(e.dir)})

RECURSIVE Pending(_)
Pending(entries) ==
    IF entries = <<>> THEN 0
    ELSE 1 + (IF Head(entries).kind = "dir" THEN Below(Head(entries)) ELSE 0)
           + Pending(Tail(entries))

\* What a run has still to do: the walks to come, and the entries the walk
\* in progress has still to visit.
Remaining ==
    (CASE pc = "start" -> 300 [] pc = "index" -> 200 [] pc = "intake" -> 100 [] OTHER -> 0)
    + Pending(todo)

\* C16: a run ends: every step of it brings it nearer to its end, and until
\* it has ended the walk in progress has returned or has a next entry, which
\* is a directory or a file that is there.  No file is handed to the walk
\* function twice, or moved twice.  When the run ends without a failure,
\* every inbox file of its start that is eligible and not excluded has been
\* moved once, into a category folder or into the delete folder, and is not
\* in the inbox.
C16_TerminatesEveryFileMovedOnce ==
    /\ [][Remaining' < Remaining]_vars
    /\ [](pc \in {"start", "index", "intake", "done", "failed"})
    /\ []((pc \in {"index", "intake"} /\ todo # <<>>) =>
            \/ Head(todo).kind = "dir"
            \/ Head(todo).kind = "file" /\ EntryPath(Head(todo)) \in DOMAIN fs)
    /\ [](\A i, j \in DOMAIN order : order[i].path = order[j].path => i = j)
    /\ [](\A m, n \in moved : m.src = n.src => m = n)
    /\ []((pc = "done" /\ failed = {}) =>
            \A p \in Candidates :
                /\ Placed(p) \/ Quarantined(p)
                /\ p \notin DOMAIN fs
                /\ \A q \in PathsUnder(fs, inboxDir) : fs[q].id # fs0[p].id)

\* A run has ended without failure that placed a file and quarantined
\* another.
C16_Witness ==
    /\ pc = "done" /\ failed = {}
    /\ \E p, q \in Candidates : Placed(p) /\ Quarantined(q)

----------------------------------------------------------------------------
(* C17 *)

\* C17: the first writer wins: once the index holds a path for a digest, no
\* insert, while the sorted tree is indexed or during intake, puts another
\* path in its place.
C17_FirstWriterWins ==
    [][\A h \in DOMAIN sortedHashes :
          h \in DOMAIN sortedHashes' /\ sortedHashes'[h] = sortedHashes[h]]_vars

----------------------------------------------------------------------------
(* C18 *)

\* C18: every entry of the index names a path at which a file of that digest
\* is.
C18_IndexPathsHoldTheirDigest ==
    \A h \in DOMAIN sortedHashes :
        /\ sortedHashes[h] \in DOMAIN fs
        /\ fileHash(fs[sortedHashes[h]]) = h

----------------------------------------------------------------------------
(* C19 *)

\* C19: fileHash is called once on every inbox file that is hashed in a run,
\* whatever becomes of the file.
C19_HashedOnce ==
    \A p \in DOMAIN hashCalls : hashCalls[p] = 1

----------------------------------------------------------------------------
(* C20 *)

\* C20: a file of the sorted tree that cannot be hashed does not end the run:
\* while only such failures happen the run is not failed.  The index that
\* collectSortedHashes returns holds the digest of every file of the sorted
\* tree that could be hashed, and for each digest a path of the sorted tree
\* at which a file of that digest is (no directory, and no digest that the
\* sorted tree has not); while it is built it holds no other digest either.
C20_IndexFailsOpen ==
    /\ (pc \in {"index", "failed"} /\ faults = Cardinality(failed)) => pc # "failed"
    /\ pc = "index" =>
          \A h \in DOMAIN sortedHashes :
              /\ sortedHashes[h] \in PathsUnder(fs0, sortedDir)
              /\ fileHash(fs0[sortedHashes[h]]) = h
    /\ pc \in {"intake", "done"} =>
          /\ \A p \in PathsUnder(fs0, sortedDir) : p \notin failed => fileHash(fs0[p]) \in index0
          /\ \A h \in index0 :
                /\ h \in DOMAIN sortedHashes
                /\ sortedHashes[h] \in PathsUnder(fs0, sortedDir)
                /\ fileHash(fs0[sortedHashes[h]]) = h

\* The index was built although a file of the sorted tree could not be
\* hashed: it holds the digest of another file and not the digest of that one.
C20_Witness ==
    /\ pc = "intake"
    /\ index0 # {}
    /\ \E p \in failed : p.root = sortedDir /\ fileHash(fs0[p]) \notin index0

----------------------------------------------------------------------------
(* C21 *)

\* C21: buildExtensionMap is a function of the taxonomy: the map that
\* loadExtensionConfig built is the map every evaluation of buildExtensionMap
\* on that taxonomy yields, whatever order its ranges come to the groups in,
\* also for a taxonomy that lists an extension in two branches.
C21_SameMapEveryEvaluation ==
    pc = "start" =>
        \A keys \in Orders : buildExtensionMap(config, keys) = extensionMap

----------------------------------------------------------------------------
(* C22 *)

\* A pattern of the list that is well formed matches the name.
ExcludedBy(patterns, n) ==
    \E i \in DOMAIN patterns : ~Match(patterns[i], n).err /\ Match(patterns[i], n).matched

\* C22: a malformed pattern in an exclusion list does not end the run: with
\* no failure of the platform the run does not fail.  It excludes nothing by
\* itself and hides no pattern of the list: a directory is skipped exactly
\* when a well-formed pattern of the directory list matches its name or the
\* name begins with '.', and a file that is not hidden is skipped as excluded
\* exactly when a well-formed pattern of the file list matches its name.
C22_MalformedPatternSkipped ==
    /\ faults = 0 => pc # "failed"
    /\ last.kind \in {"dir", "skipdir"} =>
          (last.kind = "skipdir"
              <=> (ExcludedBy(excludeDirs, last.path.name) \/ HasDotPrefix(last.path.name)))
    /\ (last.kind \notin {"none", "dir", "skipdir"} /\ ~HasDotPrefix(last.path.name)) =>
          (last.kind = "excluded" <=> ExcludedBy(excludeFiles, last.path.name))

\* A run has ended with nil, under lists that begin with a malformed
\* pattern, in which an excluded directory was skipped and the last file was
\* skipped as excluded.
C22_Witness ==
    /\ pc = "done" /\ err = "nil"
    /\ excludeDirs # <<>> /\ Match(excludeDirs[1], DirName("nm")).err
    /\ excludeFiles # <<>> /\ Match(excludeFiles[1], last.path.name).err
    /\ DirEntry(inboxDir, <<"nm">>) \in visited
    /\ DirEntry(inboxDir, <<"nm", "sub">>) \notin visited
    /\ last.kind = "excluded"

----------------------------------------------------------------------------
(* C23 *)

\* C23: the call of the walk function on an inbox file whose name begins
\* with '.' or matches a well-formed file pattern changes nothing: the trees,
\* the index, the seen set and the record of hashed files stay as they are,
\* and the walk goes on with the next entry; this on every platform, also
\* where the pattern lists are empty.  Such a file is never hashed and stays
\* at its path, and at the end of the run every file below no excluded
\* directory has been handed to the walk function.
C23_ExcludedFileSkippedAlone ==
    /\ [][(/\ pc = "intake" /\ todo # <<>> /\ Head(todo).kind = "file"
           /\ \/ HasDotPrefix(Head(todo).name)
              \/ ExcludedBy(excludeFiles, Head(todo).name)
           /\ Head(todo) \in visited')
          => /\ UNCHANGED <<fs, sortedHashes, processedHashes, hashCalls, moved, failed>>
             /\ UNCHANGED <<pc, err>>
             /\ todo' = Tail(todo)]_vars
    /\ [](\A p \in PathsUnder(fs0, inboxDir) :
            (HasDotPrefix(p.name) \/ ExcludedBy(excludeFiles, p.name)) =>
                /\ p \in DOMAIN fs /\ fs[p] = fs0[p]
                /\ p \notin DOMAIN hashCalls
                /\ \A m \in moved : m.src # p)
    /\ [](pc = "done" =>
            \A p \in PathsUnder(fs0, inboxDir) : Reached(p) => FileEntry(p) \in visited)

\* A run under empty pattern lists has ended: it came to a hidden file,
\* which is where it was, and after it moved a file of the same directory.
C23_Witness ==
    /\ pc = "done"
    /\ excludeDirs = <<>> /\ excludeFiles = <<>>
    /\ \E i, j \in DOMAIN order :
          /\ i < j
          /\ order[i].kind = "hidden" /\ order[i].path \in DOMAIN fs
          /\ order[j].path.dir = order[i].path.dir
          /\ \E m \in moved : m.src = order[j].path

----------------------------------------------------------------------------
(* C24 *)

\* C24: until collectSortedHashes has returned, the walk function of the
\* inbox has been called on nothing and no inbox file has been hashed or
\* moved: the inbox is as it was.  The intake starts only when the walk of
\* the sorted tree has come to its end without an error; an error of that
\* walk makes checkAndSortFiles return an error, with no inbox file hashed
\* or moved, and only steps of the intake hash or move a file.
C24_IntakeAfterIndexBuild ==
    /\ [](pc \in {"start", "index"} =>
            /\ hashCalls = EmptyMap /\ moved = {} /\ visited = {} /\ order = << >>
            /\ \A p \in PathsUnder(fs0, inboxDir) : p \in DOMAIN fs /\ fs[p] = fs0[p])
    /\ [][(pc' = "intake" /\ pc # "intake") =>
             (pc = "index" /\ todo = << >> /\ err = "none")]_vars
    /\ [][(pc = "index" /\ pc' = "failed") =>
             (err' = "error" /\ hashCalls' = EmptyMap /\ moved' = {} /\ fs' = fs0)]_vars
    /\ [][pc \notin {"start", "intake"} => UNCHANGED <<fs, hashCalls, moved>>]_vars

\* The walk of the sorted tree failed after it had indexed a file, and
\* checkAndSortFiles returned the error: the inbox has a file to evaluate,
\* and none was hashed or moved.
C24_Witness ==
    /\ pc = "failed" /\ err = "error"
    /\ DOMAIN sortedHashes # {} /\ index0 = {}
    /\ Candidates # {}
    /\ hashCalls = EmptyMap /\ moved = {} /\ fs = fs0

----------------------------------------------------------------------------
(* C25 *)

\* The walk function of main.go without the check of main.go:326-331: only
\* the index is asked whether the digest was seen.
walkFnIndexOnly(filePath, fault) ==
    LET f == fs[filePath]
        fileName == filePath.name
        hash == fileHash(f)
    IN  IF HasDotPrefix(fileName) THEN Skipped("hidden", FALSE)
        ELSE IF MatchesAny(excludeFiles, fileName) THEN Skipped("excluded", TRUE)
        ELSE IF Size(f) = 0 THEN Skipped("empty", TRUE)
        ELSE IF ContainsInvalidChar(fileName) THEN Skipped("invalid", TRUE)
        ELSE IF f.link THEN Skipped("symlink", TRUE)
        ELSE IF fault = "hash" THEN HashFailed
        ELSE IF Found(sortedHashes, hash)
             THEN LET m == moveFileWithMetadata(fs, filePath, deleteDir, fault)
                  IN  Outcome("crossrun", m.fs, sortedHashes, processedHashes,
                              1 + m.hashes, TRUE, Moves(filePath, m, deleteDir), m.ok,
                              m.faulted, "nil")
        ELSE LET m == moveFileBasedOnExtension(fs, filePath, fault)
             IN  Outcome("novel", m.fs, Put(sortedHashes, hash, filePath),
                         processedHashes, 1 + m.hashes, TRUE,
                         Moves(filePath, m, sortedDir), m.ok, m.faulted, "nil")

\* What becomes of a file: it is skipped, quarantined or classified.
Decision(kind) ==
    CASE kind \in {"inrun", "crossrun"} -> "quarantine"
      [] kind = "novel" -> "classify"
      [] OTHER -> "skip"

\* Two calls decide alike and leave the same trees and the same index.
SameOutcome(r, q) ==
    /\ Decision(r.kind) = Decision(q.kind)
    /\ r.fs = q.fs /\ r.index = q.index
    /\ r.moves = q.moves /\ r.ok = q.ok /\ r.ret = q.ret

\* C25: every digest of the seen set is in the index, and on every file the
\* walk comes to, whatever fails, the walk function and the walk function
\* that asks only the index decide alike (skip, quarantine or classify), move
\* the file to the same path and leave the same trees and the same index: the
\* two engines go through the same trees and indexes and end in the same.
C25_SeenSetWithinIndex ==
    /\ [](processedHashes \subseteq DOMAIN sortedHashes)
    /\ []((pc = "intake" /\ todo # <<>> /\ Head(todo).kind = "file") =>
            \A fault \in Faults :
                SameOutcome(walkFn(EntryPath(Head(todo)), fault),
                            walkFnIndexOnly(EntryPath(Head(todo)), fault)))

\* A run has ended in which a file was found in the seen set and moved to
\* the delete folder.
C25_Witness ==
    /\ pc = "done"
    /\ \E i \in DOMAIN order : order[i].kind = "inrun" /\ Quarantined(order[i].path)

----------------------------------------------------------------------------
(* C26 *)

\* C26: the digest string that fileHash returns is as long for one value as
\* for any other, and taking its first 6 characters never panics.
C26_FixedWidthPrefixDefined ==
    /\ digest.hash # <<>> =>
          \A v \in Sum64Values : Len(Sprintf_x(v)) = Len(digest.hash)
    /\ pc # "panic"

----------------------------------------------------------------------------
(* C27 *)

\* A goroutine that has returned.
Finished(g) == g.pc \in {"done", "failed"}

\* C27: in the concurrent variant the counter of the WaitGroup is the number
\* of goroutines that have not returned, and when checkAndSortFiles has
\* returned, with nil or with the error of the inbox walk, every goroutine
\* it started has returned: no file is being hashed or moved.
C27_ReturnsAfterGoroutines ==
    /\ wg = Cardinality({p \in DOMAIN goroutines : ~Finished(goroutines[p])})
    /\ pc \in {"done", "failed"} =>
          \A p \in DOMAIN goroutines : Finished(goroutines[p])

\* checkAndSortFiles has returned the error of the inbox walk, after a
\* goroutine it had started before the error moved its file.
C27_Witness ==
    /\ pc = "failed" /\ err = "error"
    /\ \E p \in DOMAIN goroutines : goroutines[p].pc = "done" /\ p \notin DOMAIN fs

----------------------------------------------------------------------------
(* C28 *)

\* An excluded or hidden directory, or a directory below one.
InExcluded(d) == \E i \in 1..Len(d) : DirExcluded(d[i])

\* C28: in a run of main no excluded or hidden inbox directory and no
\* directory below one is removed, empty or not, and the files below them
\* stay as they were; removeEmptyDirs changes no file, and a directory it
\* removes is the one the walk function was called on, is not the inbox
\* root, and has no entry.
C28_ExcludedDirsKept ==
    /\ [][\A d \in dirs : InExcluded(d) => d \in dirs']_vars
    /\ [](\A p \in PathsUnder(fs0, inboxDir) :
            ~Reached(p) => (p \in DOMAIN fs /\ fs[p] = fs0[p]))
    /\ [][pc = "clean" =>
             /\ fs' = fs
             /\ \A d \in dirs \ dirs' :
                   /\ Head(todo).kind = "dir" /\ d = Head(todo).dir
                   /\ d # << >>
                   /\ Entries(fs, dirs, inboxDir, d) = {}]_vars

====
